---- MODULE Spec2Model ----
(***************************************************************************)
(* Smart bookmark app: the bookmarks table with its row-level-security     *)
(* policies (database-schema.sql), BookmarkService (lib/bookmark-service), *)
(* the API routes (app/api/bookmarks) and the listing controller           *)
(* (hooks/useBookmarks) with its realtime subscription.                    *)
(*                                                                         *)
(* Text values (titles, urls, search terms) are sequences of one-character *)
(* strings, so that substring search is computed, not assumed.             *)
(***************************************************************************)
EXTENDS Integers, Sequences, FiniteSets, TLC

VARIABLES
    rows,        \* the bookmarks table: a set of row records
    now,         \* the database clock NOW(); every write advances it
    resp,        \* the last request an API route handled, with its response
    mounted,     \* the listing view: "no" | "yes" | "gone"
    page,        \* useBookmarks state: page
    search,      \* useBookmarks state: search
    bookmarks,   \* useBookmarks state: bookmarks (a sequence of rows)
    totalPages,  \* useBookmarks state: totalPages
    loading,     \* useBookmarks state: loading
    error,       \* useBookmarks state: error
    channels,    \* the subscribed realtime channels, each with its closure
    pending,     \* change events emitted to the view and not yet received
    inflight,    \* the fetchBookmarks calls that have not finished
    issued,      \* how many List calls the view has issued
    shown,       \* which List call filled bookmarks/totalPages (0: none)
    mut,         \* the addBookmark/deleteBookmark call in progress
    localValue,  \* BookmarkSearch state: the text in the search input
    typed,       \* the text the user typed last into the search input
    timer,       \* the debounce timer of BookmarkSearch with its closure
    queued       \* the handleSearch updates that wait for their render

store == <<rows, now, resp>>
box   == <<localValue, typed, timer, queued>>
ctl   == <<mounted, page, search, bookmarks, totalPages, loading, error,
           channels, pending, inflight, issued, shown, mut,
           localValue, typed, timer, queued>>
vars  == <<rows, now, resp, mounted, page, search, bookmarks, totalPages,
           loading, error, channels, pending, inflight, issued, shown, mut,
           localValue, typed, timer, queued>>

(***************************************************************************)
(* Bounds of the model.                                                    *)
(***************************************************************************)
MaxWrites == 2      \* writes to the table in one behaviour
MaxViewWrites == 1  \* the same, while the listing view is followed
MaxIssued == 4      \* List calls the view issues in one behaviour
MaxInflight == 2    \* overlapping fetches of the view
MaxPending == 2     \* undelivered change events of the view
MaxPage == 4        \* the furthest page the view is taken to

Users == {"u1", "u2"}
Anon  == "anon"                 \* a request without a valid session
Callers == Users \cup {Anon}
viewUser == "u1"                \* the user whose tab the listing view is

\* Text values.
TAlpha == <<"A", "l">>
TBeta  == <<"B", "e">>
UrlA   == <<"h", "t", "t", "p", ":", "/", "/", "a">>
UrlB   == <<"h", "t", "t", "p", "s", ":", "/", "/", "b">>
Titles == {TAlpha, TBeta}
Urls   == {UrlA, UrlB}
Searches == {<<>>, <<"a", "l">>, <<"z">>, <<"_">>, <<",">>}
ViewSearches == {<<>>, <<"a", "l">>}

None == [none |-> TRUE]

Min(a, b) == IF a < b THEN a ELSE b

(***************************************************************************)
(* The table and its policies.                                             *)
(***************************************************************************)
Row(id, user, url, title, created, updated) ==
    [id |-> id, user_id |-> user, url |-> url, title |-> title,
     created_at |-> created, updated_at |-> updated]

\* gen_random_uuid(): an id no other row has or had (the clock is strictly
\* increasing, and seeded rows have ids below 100).
NewId(t) == 100 + t

\* CREATE POLICY ... USING (auth.uid() = user_id)
PolicySelect(uid, r) == uid = r.user_id
PolicyInsert(uid, r) == uid = r.user_id
PolicyUpdate(uid, r) == uid = r.user_id
PolicyDelete(uid, r) == uid = r.user_id

(***************************************************************************)
(* ILIKE: case-insensitive LIKE, % any run of characters, _ any character. *)
(***************************************************************************)
Lower(c) ==
    CASE c = "A" -> "a" [] c = "B" -> "b" [] c = "L" -> "l" [] c = "E" -> "e"
      [] c = "Z" -> "z" [] c = "H" -> "h" [] c = "T" -> "t" [] c = "P" -> "p"
      [] c = "S" -> "s" [] OTHER -> c

RECURSIVE Like(_, _)
Like(p, s) ==
    IF p = <<>> THEN s = <<>>
    ELSE IF Head(p) = "%"
         THEN Like(Tail(p), s) \/ (s # <<>> /\ Like(p, Tail(s)))
         ELSE /\ s # <<>>
              /\ (Head(p) = "_" \/ Lower(Head(p)) = Lower(Head(s)))
              /\ Like(Tail(p), Tail(s))

\* .or(`title.ilike.%${search}%,url.ilike.%${search}%`)
SearchFilter(r, term) ==
    \/ Like(<<"%">> \o term \o <<"%">>, r.title)
    \/ Like(<<"%">> \o term \o <<"%">>, r.url)

\* The filter string is a comma-separated list of conditions: a comma in the
\* term splits it into pieces that are no conditions, and the store refuses
\* the query.
OrParses(term) == \A i \in 1..Len(term) : term[i] # ","

\* .order('created_at', { ascending: false })
RECURSIVE OrderDesc(_)
OrderDesc(S) ==
    IF S = {} THEN <<>>
    ELSE LET top == CHOOSE r \in S : \A q \in S : q.created_at <= r.created_at
         IN  <<top>> \o OrderDesc(S \ {top})

Ceil_floor(a, b) == a \div b

Range_exclusive(seq, from, to) ==
    IF from + 1 > Len(seq) THEN <<>>
    ELSE SubSeq(seq, from + 1, Min(to, Len(seq)))

\* Math.ceil(a / b) for a >= 0, b >= 1
Ceil(a, b) == IF a % b = 0 THEN a \div b ELSE (a \div b) + 1

\* .range(from, to) on an ordered result
Range(seq, from, to) ==
    IF from + 1 > Len(seq) THEN <<>>
    ELSE SubSeq(seq, from + 1, Min(to + 1, Len(seq)))

(***************************************************************************)
(* BookmarkService.  tbl is the table, uid the session of the supabase     *)
(* client the service was built with (auth.uid() in the policies), t the   *)
(* time of the statement, fail whether the store refuses the statement.    *)
(***************************************************************************)
Threw == [threw |-> TRUE, value |-> None]
Returned(x) == [threw |-> FALSE, value |-> x]

Single_maybe(S) ==
    IF Cardinality(S) <= 1
    THEN [error |-> FALSE,
          data |-> IF S = {} THEN None ELSE CHOOSE r \in S : TRUE]
    ELSE [error |-> TRUE, data |-> None]

\* .single(): an error unless exactly one row comes back
Single(S) ==
    IF Cardinality(S) = 1
    THEN [error |-> FALSE, data |-> CHOOSE r \in S : TRUE]
    ELSE [error |-> TRUE, data |-> None]

getBookmarks_unscoped(tbl, uid, userId, params, fail) ==
    LET offset == (params.page - 1) * params.limit
        matched == IF params.search # <<>>
                   THEN {r \in tbl : SearchFilter(r, params.search)}
                   ELSE tbl
        count == Cardinality(matched)
    IN  IF fail \/ ~OrParses(params.search) THEN Threw
        ELSE Returned([data |-> Range(OrderDesc(matched), offset,
                                      offset + params.limit - 1),
                       total |-> count, page |-> params.page,
                       limit |-> params.limit,
                       totalPages |-> Ceil(count, params.limit)])

getBookmarks(tbl, uid, userId, params, fail) ==
    LET offset == (params.page - 1) * params.limit
        visible == {r \in tbl : PolicySelect(uid, r)}
        owned == {r \in visible : r.user_id = userId}
        matched == IF params.search # <<>>
                   THEN {r \in owned : SearchFilter(r, params.search)}
                   ELSE owned
        count == Cardinality(matched)
    IN  IF fail \/ ~OrParses(params.search) THEN Threw
        ELSE Returned([data |-> Range(OrderDesc(matched), offset,
                                      offset + params.limit - 1),
                       total |-> count, page |-> params.page,
                       limit |-> params.limit,
                       totalPages |-> Ceil(count, params.limit)])

\* Results of the writing operations also carry the table afterwards.
Outcome(tbl, res) == [rows |-> tbl, threw |-> res.threw, value |-> res.value]

createBookmark(tbl, uid, userId, input, t, fail) ==
    LET new == Row(NewId(t), userId, input.url, input.title, t, t)
    IN  IF input.url = <<>> \/ input.title = <<>> THEN Outcome(tbl, Threw)
        ELSE IF fail \/ ~PolicyInsert(uid, new) THEN Outcome(tbl, Threw)
        ELSE Outcome(tbl \cup {new}, Returned(new))

deleteBookmark_anyOwner(tbl, uid, bookmarkId, userId, fail) ==
    IF fail THEN Outcome(tbl, Threw)
    ELSE Outcome({r \in tbl : r.id # bookmarkId}, Returned(None))

deleteBookmark_strict(tbl, uid, bookmarkId, userId, fail) ==
    LET targets == {r \in tbl : /\ PolicyDelete(uid, r)
                                /\ r.id = bookmarkId
                                /\ r.user_id = userId}
    IN  IF fail \/ targets = {} THEN Outcome(tbl, Threw)
        ELSE Outcome(tbl \ targets, Returned(None))

deleteBookmark(tbl, uid, bookmarkId, userId, fail) ==
    LET targets == {r \in tbl : /\ PolicyDelete(uid, r)
                                /\ r.id = bookmarkId
                                /\ r.user_id = userId}
    IN  IF fail THEN Outcome(tbl, Threw)
        ELSE Outcome(tbl \ targets, Returned(None))

\* { ...input, updated_at: now } applied to a row (the trigger
\* update_updated_at_column sets updated_at again, to the same clock)
Apply(r, input, t) ==
    [f \in DOMAIN r |->
        IF f = "updated_at" THEN t
        ELSE IF f \in DOMAIN input THEN input[f] ELSE r[f]]

updateBookmark(tbl, uid, bookmarkId, userId, input, t, fail) ==
    LET targets == {r \in tbl : /\ PolicyUpdate(uid, r)
                                /\ r.id = bookmarkId
                                /\ r.user_id = userId}
        changed == {Apply(r, input, t) : r \in targets}
        \* a policy without WITH CHECK checks the new row with USING
        refused == \E r \in changed : ~PolicyUpdate(uid, r)
        got == Single({r \in changed : PolicySelect(uid, r)})
    IN  IF fail \/ refused THEN Outcome(tbl, Threw)
        ELSE IF got.error THEN Outcome((tbl \ targets) \cup changed, Threw)
        ELSE Outcome((tbl \ targets) \cup changed, Returned(got.data))

getBookmark_partial(tbl, uid, bookmarkId, userId, fail) ==
    LET got == Single({r \in tbl : /\ PolicySelect(uid, r)
                                   /\ r.id = bookmarkId
                                   /\ r.user_id = userId})
    IN  IF fail \/ got.error THEN None
        ELSE [id |-> got.data.id, url |-> got.data.url, title |-> got.data.title]

getBookmark(tbl, uid, bookmarkId, userId, fail) ==
    LET got == Single({r \in tbl : /\ PolicySelect(uid, r)
                                   /\ r.id = bookmarkId
                                   /\ r.user_id = userId})
    IN  IF fail \/ got.error THEN None ELSE got.data

(***************************************************************************)
(* The API routes.  caller is the user of the session cookie, or Anon.     *)
(* A response: status, body, and what the service call ended in.           *)
(***************************************************************************)
Reply(op, caller, id, status, svc) ==
    [op |-> op, user |-> caller, id |-> id, status |-> status,
     called |-> svc # None,
     threw |-> IF svc = None THEN FALSE ELSE svc.threw,
     body |-> IF svc = None \/ status >= 400 THEN None ELSE svc.value]

\* The response of GET together with the query parameters of its request.
Asked(r, p, l, term) ==
    [op |-> r.op, user |-> r.user, id |-> r.id, status |-> r.status,
     called |-> r.called, threw |-> r.threw, body |-> r.body,
     query |-> [page |-> p, limit |-> l, search |-> term]]

GET(tbl, caller, p, l, term, fail) ==
    IF caller = Anon THEN Asked(Reply("GET", caller, 0, 401, None), p, l, term)
    ELSE LET svc == getBookmarks(tbl, caller, caller,
                        [page |-> p, limit |-> l, search |-> term], fail)
         IN  Asked(Reply("GET", caller, 0, IF svc.threw THEN 500 ELSE 200, svc),
                   p, l, term)

POST_noValidate(tbl, caller, url, title, t, fail) ==
    IF caller = Anon THEN [rows |-> tbl, reply |-> Reply("POST", caller, 0, 401, None)]
    ELSE LET svc == createBookmark(tbl, caller, caller,
                        [url |-> url, title |-> title], t, fail)
         IN  [rows |-> svc.rows,
              reply |-> Reply("POST", caller, 0,
                              IF svc.threw THEN 500 ELSE 201, svc)]

POST(tbl, caller, url, title, t, fail) ==
    IF caller = Anon THEN [rows |-> tbl, reply |-> Reply("POST", caller, 0, 401, None)]
    ELSE IF url = <<>> \/ title = <<>>
         THEN [rows |-> tbl, reply |-> Reply("POST", caller, 0, 400, None)]
    ELSE LET svc == createBookmark(tbl, caller, caller,
                        [url |-> url, title |-> title], t, fail)
         IN  [rows |-> svc.rows,
              reply |-> Reply("POST", caller, 0,
                              IF svc.threw THEN 500 ELSE 201, svc)]

DELETE(tbl, caller, id, fail) ==
    IF caller = Anon THEN [rows |-> tbl, reply |-> Reply("DELETE", caller, id, 401, None)]
    ELSE LET svc == deleteBookmark(tbl, caller, id, caller, fail)
         IN  [rows |-> svc.rows,
              reply |-> Reply("DELETE", caller, id,
                              IF svc.threw THEN 500 ELSE 200, svc)]

PATCH_noAuth(tbl, caller, id, body, t, fail) ==
    LET svc == updateBookmark(tbl, caller, id, caller, body, t, fail)
    IN  [rows |-> svc.rows,
         reply |-> Reply("PATCH", caller, id,
                         IF svc.threw THEN 500 ELSE 200, svc)]

PATCH(tbl, caller, id, body, t, fail) ==
    IF caller = Anon THEN [rows |-> tbl, reply |-> Reply("PATCH", caller, id, 401, None)]
    ELSE LET svc == updateBookmark(tbl, caller, id, caller, body, t, fail)
         IN  [rows |-> svc.rows,
              reply |-> Reply("PATCH", caller, id,
                              IF svc.threw THEN 500 ELSE 200, svc)]

(***************************************************************************)
(* The state at the start: a table that earlier requests have filled (user *)
(* u1 owns n rows, created one after the other, and u2 owns one), no       *)
(* request handled yet, the listing view not mounted.                      *)
(***************************************************************************)
SeedFew == 3            \* rows of u1 when the routes are checked
SeedOwn == 21           \* rows of u1 when the listing view is checked
SeedOther == 50         \* the id of the row u2 owns

Seed(n) ==
    {Row(i, "u1", IF i % 2 = 1 THEN UrlA ELSE UrlB,
         IF i % 2 = 1 THEN TAlpha ELSE TBeta, i - 50, i - 50) : i \in 1..n}
    \cup {Row(SeedOther, "u2", UrlA, TAlpha, 0, 0)}

NoReply == Reply("none", Anon, 0, 0, None)
NoError == "null"

InitWith(tbl) ==
    /\ rows = tbl
    /\ now = 0
    /\ resp = NoReply
    /\ mounted = "no"
    /\ page = 1
    /\ search = <<>>
    /\ bookmarks = <<>>
    /\ totalPages = 1
    /\ loading = TRUE
    /\ error = NoError
    /\ channels = {}
    /\ pending = <<>>
    /\ inflight = {}
    /\ issued = 0
    /\ shown = 0
    /\ mut = None
    /\ localValue = <<>>
    /\ typed = <<>>
    /\ timer = None
    /\ queued = <<>>

Init == InitWith(Seed(SeedFew))

(***************************************************************************)
(* The change feed: postgres_changes with event '*' on public.bookmarks.   *)
(* An insert or update reaches the subscribers that may select the row; a  *)
(* delete carries no row to check and reaches every subscriber.            *)
(***************************************************************************)
Notify(kind, before, after) ==
    IF channels = {} \/ before = after THEN pending
    ELSE IF kind = "DELETE" \/ \E r \in after \ before : PolicySelect(viewUser, r)
         THEN Append(pending, kind)
         ELSE pending

\* A write request handled by its route: the table, the clock, the response
\* and the change event.
Write(kind, out) ==
    /\ out.rows # rows => now < MaxWrites
    /\ Len(Notify(kind, rows, out.rows)) <= MaxPending
    /\ rows' = out.rows
    /\ now' = IF out.rows # rows THEN now + 1 ELSE now
    /\ resp' = out.reply
    /\ pending' = Notify(kind, rows, out.rows)

(***************************************************************************)
(* Requests sent to the routes by any client.                              *)
(***************************************************************************)
\* limit: '10' of the listing view, and the default of the route
PageLimit == 10

Pages == {1, 2}
Limits == {1, 2, 100, 101}
TargetIds == {1, SeedOther, 99, NewId(1)}
PostInputs == {[url |-> UrlA, title |-> TAlpha], [url |-> UrlB, title |-> TBeta],
               [url |-> UrlA, title |-> <<>>], [url |-> <<>>, title |-> TAlpha],
               [url |-> <<"x">>, title |-> TBeta]}
Bodies == {[title |-> TBeta], [url |-> UrlB, title |-> TAlpha],
           [user_id |-> "u2"], [created_at |-> 5]}

ApiGET(c, p, l, term, fail) ==
    /\ resp' = GET(rows, c, p, l, term, fail)
    /\ UNCHANGED <<rows, now>>
    /\ UNCHANGED ctl

\* BookmarkService.getBookmark called by server code with the session of c:
\* a call of the service, not a route, so there is no HTTP status.
Answer(op, c, id, value) ==
    [op |-> op, user |-> c, id |-> id, status |-> 0, called |-> TRUE,
     threw |-> FALSE, body |-> value]

GetOne(c, id, fail) ==
    /\ resp' = Answer("GetOne", c, id, getBookmark(rows, c, id, c, fail))
    /\ UNCHANGED <<rows, now>>
    /\ UNCHANGED ctl

ApiPOST(c, url, title, fail) ==
    /\ Write("INSERT", POST(rows, c, url, title, now + 1, fail))
    /\ UNCHANGED box
    /\ UNCHANGED <<mounted, page, search, bookmarks, totalPages, loading,
                   error, channels, inflight, issued, shown, mut>>

ApiPATCH(c, id, body, fail) ==
    /\ Write("UPDATE", PATCH(rows, c, id, body, now + 1, fail))
    /\ UNCHANGED box
    /\ UNCHANGED <<mounted, page, search, bookmarks, totalPages, loading,
                   error, channels, inflight, issued, shown, mut>>

ApiDELETE(c, id, fail) ==
    /\ Write("DELETE", DELETE(rows, c, id, fail))
    /\ UNCHANGED box
    /\ UNCHANGED <<mounted, page, search, bookmarks, totalPages, loading,
                   error, channels, inflight, issued, shown, mut>>

\* Requests of signed-in users that the store serves; requests the store
\* refuses, whose answer does not depend on page, body or input; and requests
\* without a session, which are answered before anything is read.
Next ==
    \/ \E c \in Users, p \in Pages, l \in Limits, term \in Searches :
          ApiGET(c, p, l, term, FALSE)
    \/ \E c \in Users : ApiGET(c, 1, PageLimit, <<>>, TRUE)
    \/ ApiGET(Anon, 1, PageLimit, <<>>, FALSE)
    \/ \E c \in Users, in \in PostInputs : ApiPOST(c, in.url, in.title, FALSE)
    \/ \E c \in Users : ApiPOST(c, UrlA, TAlpha, TRUE)
    \/ ApiPOST(Anon, UrlA, TAlpha, FALSE)
    \/ \E c \in Users, id \in TargetIds, body \in Bodies :
          ApiPATCH(c, id, body, FALSE)
    \/ \E c \in Users, id \in TargetIds : ApiPATCH(c, id, [title |-> TBeta], TRUE)
    \/ \E id \in TargetIds : ApiPATCH(Anon, id, [title |-> TBeta], FALSE)
    \/ \E c \in Callers, id \in TargetIds, fail \in BOOLEAN :
          ApiDELETE(c, id, fail)
    \/ \E c \in Users, id \in TargetIds, fail \in BOOLEAN : GetOne(c, id, fail)

\* The routes and the table, driven by any clients.
Spec == Init /\ [][Next]_vars

(***************************************************************************)
(* The listing controller: the useBookmarks hook, as BookmarksPage mounts  *)
(* it.  A handler, the render it causes and the effect of that render are  *)
(* one step (React 18 batches the state updates of one handler).           *)
(***************************************************************************)
NetError == [status |-> 0, body |-> None]

\* fetchBookmarks as created by a render with page p and search s, called:
\* call number n, its request not yet handled.
NewFetch(n, p, s) ==
    [n |-> n, page |-> p, search |-> s, phase |-> "sent", reply |-> None]

Callback_none(c) == <<>>

Callback_stale(c) == <<[page |-> 1, search |-> <<>>]>>

\* The callback of a subscribed channel: the List calls it makes on an event.
Callback(c) == <<[page |-> c.page, search |-> c.search]>>

Resubscribe_leak(chs, new) == chs \cup {new}

\* The effect's cleanup, supabase.removeChannel(channel), and then
\* supabase.channel('bookmarks-changes').on(...).subscribe()
Resubscribe(chs, new) == {new}

\* The cleanup when the view goes away
Teardown(chs) == {}

handleSearch_keepPage(p, s, value) == [search |-> value, page |-> p]

\* handleSearch: setSearch(value); setPage(1)
handleSearch(p, s, value) == [search |-> value, page |-> 1]

\* handlePageChange: setPage(newPage)
handlePageChange(p, newPage) == newPage

\* The calls the callbacks of the channels make, oldest channel first.
RECURSIVE Calls(_)
Calls(chs) ==
    IF chs = {} THEN <<>>
    ELSE LET c == CHOOSE x \in chs : \A y \in chs : x.id <= y.id
         IN  Callback(c) \o Calls(chs \ {c})

\* fetchBookmarks called once per element of cs: setLoading(true),
\* setError(null), and the requests go out.
Fetching(cs) ==
    /\ issued + Len(cs) <= MaxIssued
    /\ Cardinality(inflight) + Len(cs) <= MaxInflight
    /\ inflight' = inflight \cup
           {NewFetch(issued + i, cs[i].page, cs[i].search) : i \in 1..Len(cs)}
    /\ issued' = issued + Len(cs)
    /\ loading' = IF cs = <<>> THEN loading ELSE TRUE
    /\ error' = IF cs = <<>> THEN error ELSE NoError

\* useEffect(..., [fetchBookmarks, supabase]) after a render with page p and
\* search s: the cleanup of the previous run, fetchBookmarks(), subscribe.
Effect(p, s) ==
    /\ Fetching(<<[page |-> p, search |-> s]>>)
    /\ channels' = Resubscribe(channels,
                               [id |-> issued + 1, page |-> p, search |-> s])
    /\ pending' = IF channels \subseteq channels' THEN pending ELSE <<>>

\* useEffect of BookmarkSearch: setTimeout(() => { if (localValue !== value)
\* onChange(localValue) }, 300) with the localValue and value of its render.
Debounce(lv, v) == [lv |-> lv, v |-> v]

Mount ==
    /\ mounted = "no"
    /\ mounted' = "yes"
    /\ Effect(page, search)
    /\ localValue' = search
    /\ typed' = search
    /\ timer' = Debounce(search, search)
    /\ queued' = <<>>
    /\ UNCHANGED <<store, page, search, bookmarks, totalPages, shown, mut>>

\* BookmarkSearch calls onChange(value) only with a value that differs:
\* the text typed, the timer run out and the update rendered, all in one.
SearchChange(value) ==
    /\ mounted = "yes"
    /\ value # search
    /\ queued = <<>>
    /\ localValue' = value
    /\ typed' = value
    /\ timer' = Debounce(value, value)
    /\ queued' = <<>>
    /\ LET st == handleSearch(page, search, value)
       IN  /\ search' = st.search
           /\ page' = st.page
           /\ Effect(st.page, st.search)
    /\ UNCHANGED <<store, mounted, bookmarks, totalPages, shown, mut>>

\* Pagination: shown when totalPages > 1; Previous is disabled on page 1.
PrevPage ==
    /\ mounted = "yes"
    /\ totalPages > 1
    /\ page # 1
    /\ page' = handlePageChange(page, page - 1)
    /\ Effect(page', search)
    /\ UNCHANGED box
    /\ UNCHANGED <<store, mounted, search, bookmarks, totalPages, shown, mut>>

\* Pagination: Next is disabled on the page equal to totalPages.
NextPage ==
    /\ mounted = "yes"
    /\ totalPages > 1
    /\ page # totalPages
    /\ page < MaxPage
    /\ page' = handlePageChange(page, page + 1)
    /\ Effect(page', search)
    /\ UNCHANGED box
    /\ UNCHANGED <<store, mounted, search, bookmarks, totalPages, shown, mut>>

\* A change event arrives: every subscribed channel runs its callback.
ReceiveEvent ==
    /\ mounted = "yes"
    /\ pending # <<>>
    /\ pending' = Tail(pending)
    /\ Fetching(Calls(channels))
    /\ UNCHANGED box
    /\ UNCHANGED <<store, mounted, page, search, bookmarks, totalPages,
                   channels, shown, mut>>

\* GET /api/bookmarks?page=&limit=10&search= handled for a fetch, or the
\* request lost ("net"), or the store refusing the query ("store").
ServeFetch(f, outcome) ==
    /\ f \in inflight
    /\ f.phase = "sent"
    /\ LET r == GET(rows, viewUser, f.page, PageLimit, f.search,
                    outcome = "store")
           reply == IF outcome = "net" THEN NetError
                    ELSE [status |-> r.status, body |-> r.body]
       IN  inflight' = (inflight \ {f}) \cup
                       {[f EXCEPT !.phase = "answered", !.reply = reply]}
    /\ UNCHANGED box
    /\ UNCHANGED <<store, mounted, page, search, bookmarks, totalPages,
                   loading, error, channels, pending, issued, shown, mut>>

createClient_fresh(n) == n

\* createClient(): the client the n-th call in a tab returns.
\* createBrowserClient / createClientComponentClient hand out the one
\* client they made first.
createClient(n) == 1

\* Does a render find another client than the render before it, so that
\* the effect with [fetchBookmarks, supabase] runs again?
Rerenders == createClient(2) # createClient(1)

\* Is addBookmark / deleteBookmark waiting in `await fetchBookmarks()`
\* for the List call n?
Refreshing(n) == mut # None /\ mut.phase = "refreshing" /\ mut.n = n

CompleteFetch_noFinally(f) ==
    /\ f \in inflight
    /\ f.phase = "answered"
    /\ IF f.reply.status = 200
       THEN /\ bookmarks' = f.reply.body.data
            /\ totalPages' = f.reply.body.totalPages
            /\ shown' = f.n
       ELSE UNCHANGED <<bookmarks, totalPages, shown>>
    /\ mut' = IF Refreshing(f.n) THEN None ELSE mut
    /\ IF Rerenders
       THEN /\ issued < MaxIssued
            /\ inflight' = (inflight \ {f}) \cup
                               {NewFetch(issued + 1, page, search)}
            /\ issued' = issued + 1
            /\ channels' = Resubscribe(channels, [id |-> issued + 1,
                                       page |-> page, search |-> search])
            /\ pending' = <<>>
            /\ loading' = TRUE
            /\ error' = NoError
       ELSE /\ inflight' = inflight \ {f}
            /\ loading' = IF f.reply.status = 200 THEN FALSE ELSE loading
            /\ error' = IF f.reply.status = 200 THEN error
                        ELSE IF f.reply = NetError
                             THEN "Network error occurred"
                             ELSE "Failed to fetch bookmarks"
            /\ UNCHANGED <<issued, channels, pending>>
    /\ UNCHANGED box
    /\ UNCHANGED <<store, mounted, page, search>>

CompleteFetch_clearItems(f) ==
    /\ f \in inflight
    /\ f.phase = "answered"
    /\ IF f.reply.status = 200
       THEN /\ bookmarks' = f.reply.body.data
            /\ totalPages' = f.reply.body.totalPages
            /\ shown' = f.n
       ELSE bookmarks' = <<>> /\ totalPages' = 1 /\ shown' = 0
    /\ mut' = IF Refreshing(f.n) THEN None ELSE mut
    /\ IF Rerenders
       THEN /\ issued < MaxIssued
            /\ inflight' = (inflight \ {f}) \cup
                               {NewFetch(issued + 1, page, search)}
            /\ issued' = issued + 1
            /\ channels' = Resubscribe(channels, [id |-> issued + 1,
                                       page |-> page, search |-> search])
            /\ pending' = <<>>
            /\ loading' = TRUE
            /\ error' = NoError
       ELSE /\ inflight' = inflight \ {f}
            /\ loading' = FALSE
            /\ error' = IF f.reply.status = 200 THEN error
                        ELSE IF f.reply = NetError
                             THEN "Network error occurred"
                             ELSE "Failed to fetch bookmarks"
            /\ UNCHANGED <<issued, channels, pending>>
    /\ UNCHANGED box
    /\ UNCHANGED <<store, mounted, page, search>>

\* The rest of fetchBookmarks once its response is there: the state is set,
\* the caller that awaited it goes on (and returns), the view renders and
\* the effect runs again if one of its dependencies is another value.
CompleteFetch(f) ==
    /\ f \in inflight
    /\ f.phase = "answered"
    /\ IF f.reply.status = 200
       THEN /\ bookmarks' = f.reply.body.data
            /\ totalPages' = f.reply.body.totalPages
            /\ shown' = f.n
       ELSE UNCHANGED <<bookmarks, totalPages, shown>>
    /\ mut' = IF Refreshing(f.n) THEN None ELSE mut
    /\ IF Rerenders
       THEN /\ issued < MaxIssued
            /\ inflight' = (inflight \ {f}) \cup
                               {NewFetch(issued + 1, page, search)}
            /\ issued' = issued + 1
            /\ channels' = Resubscribe(channels, [id |-> issued + 1,
                                       page |-> page, search |-> search])
            /\ pending' = <<>>
            /\ loading' = TRUE
            /\ error' = NoError
       ELSE /\ inflight' = inflight \ {f}
            /\ loading' = FALSE
            /\ error' = IF f.reply.status = 200 THEN error
                        ELSE IF f.reply = NetError
                             THEN "Network error occurred"
                             ELSE "Failed to fetch bookmarks"
            /\ UNCHANGED <<issued, channels, pending>>
    /\ UNCHANGED box
    /\ UNCHANGED <<store, mounted, page, search>>

\* addBookmark / deleteBookmark called: the request goes out and its route
\* handles it (one step); the response is on its way back.  The closure holds
\* the fetchBookmarks of the render that created it (used on success only);
\* error is the message the call returns with success: false.
Awaiting(kind, status) ==
    IF status \in 200..299
    THEN [kind |-> kind, ok |-> TRUE, page |-> page, search |-> search,
          phase |-> "sent", n |-> 0, error |-> ""]
    ELSE [kind |-> kind, ok |-> FALSE, page |-> 1, search |-> <<>>,
          phase |-> "sent", n |-> 0,
          error |-> IF status = 0 THEN "Network error occurred"
                    ELSE IF kind = "add" THEN "Failed to create bookmark"
                    ELSE "Failed to delete bookmark"]

\* await fetch('/api/bookmarks', { method: 'POST', ... }); with outcome
\* "net" fetch throws and the request never got to the route.
AddBookmark(in, outcome) ==
    /\ mounted = "yes"
    /\ mut = None
    /\ now < MaxViewWrites
    /\ IF outcome = "net"
       THEN /\ mut' = Awaiting("add", NetError.status)
            /\ UNCHANGED <<store, pending>>
       ELSE LET out == POST(rows, viewUser, in.url, in.title, now + 1,
                            outcome = "store")
            IN  /\ Write("INSERT", out)
                /\ mut' = Awaiting("add", out.reply.status)
    /\ UNCHANGED box
    /\ UNCHANGED <<mounted, page, search, bookmarks, totalPages, loading,
                   error, channels, inflight, issued, shown>>

\* await fetch(`/api/bookmarks/${id}`, { method: 'DELETE' }); the list offers
\* Delete on the items it shows, and shows none while loading.
DeleteBookmark(id, outcome) ==
    /\ mounted = "yes"
    /\ mut = None
    /\ now < MaxViewWrites
    /\ ~loading
    /\ \E i \in 1..Len(bookmarks) : bookmarks[i].id = id
    /\ IF outcome = "net"
       THEN /\ mut' = Awaiting("delete", NetError.status)
            /\ UNCHANGED <<store, pending>>
       ELSE LET out == DELETE(rows, viewUser, id, outcome = "store")
            IN  /\ Write("DELETE", out)
                /\ mut' = Awaiting("delete", out.reply.status)
    /\ UNCHANGED box
    /\ UNCHANGED <<mounted, page, search, bookmarks, totalPages, loading,
                   error, channels, inflight, issued, shown>>

FinishMut_noAwait ==
    /\ mut # None
    /\ mut.phase = "sent"
    /\ mut' = None
    /\ Fetching(IF mut.ok
                THEN <<[page |-> mut.page, search |-> mut.search]>>
                ELSE <<>>)
    /\ UNCHANGED box
    /\ UNCHANGED <<store, mounted, page, search, bookmarks, totalPages,
                   channels, pending, shown>>

\* The response is there: if (response.ok) { await fetchBookmarks() } and
\* the call stays in the await until that List call is through; otherwise
\* it returns { success: false, error } at once.
FinishMut ==
    /\ mut # None
    /\ mut.phase = "sent"
    /\ mut' = IF mut.ok
              THEN [mut EXCEPT !.phase = "refreshing", !.n = issued + 1]
              ELSE None
    /\ Fetching(IF mut.ok
                THEN <<[page |-> mut.page, search |-> mut.search]>>
                ELSE <<>>)
    /\ UNCHANGED box
    /\ UNCHANGED <<store, mounted, page, search, bookmarks, totalPages,
                   channels, pending, shown>>

\* The view goes away: the cleanup runs, the hook's state is dropped and
\* what is still in flight finds nothing to update.
Unmount ==
    /\ mounted = "yes"
    /\ mounted' = "gone"
    /\ channels' = Teardown(channels)
    /\ pending' = IF channels' = {} THEN <<>> ELSE pending
    /\ inflight' = {}
    /\ page' = 1
    /\ search' = <<>>
    /\ bookmarks' = <<>>
    /\ totalPages' = 1
    /\ loading' = TRUE
    /\ error' = NoError
    /\ shown' = 0
    /\ mut' = None
    /\ localValue' = <<>>
    /\ typed' = <<>>
    /\ timer' = None
    /\ queued' = <<>>
    /\ UNCHANGED <<store, issued>>

\* Writes of other sessions (other tabs of the user, other users)
\* while the view is there.
WhileViewed == mounted = "yes" /\ now < MaxViewWrites
OtherPOST(c) == WhileViewed /\ ApiPOST(c, UrlA, TAlpha, FALSE)
OtherPATCH == WhileViewed /\ ApiPATCH(viewUser, 1, [title |-> TBeta], FALSE)
OtherDELETE == WhileViewed /\ ApiDELETE("u2", SeedOther, FALSE)

\* A keystroke in the search input: onChange={(e) => setLocalValue(...)},
\* the render, the cleanup of the timer and the new timer.
Type(text) ==
    /\ mounted = "yes"
    /\ text # localValue
    /\ localValue' = text
    /\ typed' = text
    /\ timer' = Debounce(text, search)
    /\ UNCHANGED <<store, mounted, page, search, bookmarks, totalPages,
                   loading, error, channels, pending, inflight, issued,
                   shown, mut, queued>>

\* The 300 ms are over: the timer's callback runs.  onChange is handleSearch,
\* whose setSearch / setPage wait for the render React has scheduled; that
\* render comes well before another 300 ms are over.
FireTimer ==
    /\ mounted = "yes"
    /\ timer # None
    /\ queued = <<>>
    /\ timer' = None
    /\ queued' = IF timer.lv # timer.v THEN <<timer.lv>> ELSE <<>>
    /\ UNCHANGED <<store, mounted, page, search, bookmarks, totalPages,
                   loading, error, channels, pending, inflight, issued,
                   shown, mut, localValue, typed>>

\* The render of the update handleSearch queued: the hook's effect runs for
\* the new search, BookmarkSearch gets the new value, its first effect does
\* setLocalValue(value) and its second one sets the timer again.
ApplySearch ==
    /\ mounted = "yes"
    /\ queued # <<>>
    /\ LET st == handleSearch(page, search, Head(queued))
       IN  /\ search' = st.search
           /\ page' = st.page
           /\ Effect(st.page, st.search)
           /\ localValue' = st.search
           /\ timer' = Debounce(st.search, st.search)
    /\ queued' = <<>>
    /\ UNCHANGED <<store, mounted, bookmarks, totalPages, shown, mut, typed>>

ViewInputs == {[url |-> UrlB, title |-> TBeta]}
Outcomes == {"ok", "store", "net"}

NextView ==
    \/ Mount
    \/ \E value \in ViewSearches : SearchChange(value)
    \/ PrevPage
    \/ NextPage
    \/ ReceiveEvent
    \/ \E f \in inflight, outcome \in Outcomes : ServeFetch(f, outcome)
    \/ \E f \in inflight : CompleteFetch(f)
    \/ \E in \in ViewInputs, outcome \in Outcomes : AddBookmark(in, outcome)
    \/ \E outcome \in Outcomes :
          bookmarks # <<>> /\ DeleteBookmark(bookmarks[1].id, outcome)
    \/ FinishMut
    \/ Unmount
    \/ \E c \in Users : OtherPOST(c)
    \/ OtherPATCH
    \/ OtherDELETE

InitView == InitWith(Seed(SeedOwn))

\* One listing view of user u1, with the writes of other sessions.
SpecView == InitView /\ [][NextView]_vars

\* The fetches of the view by themselves: navigation, search and the events
\* of other sessions' inserts, without the view's own add and delete.
NextFetch ==
    \/ Mount
    \/ \E value \in ViewSearches : SearchChange(value)
    \/ PrevPage
    \/ NextPage
    \/ ReceiveEvent
    \/ \E f \in inflight, outcome \in Outcomes : ServeFetch(f, outcome)
    \/ \E f \in inflight : CompleteFetch(f)
    \/ Unmount
    \/ \E c \in Users : OtherPOST(c)

\* A request that is out gets its answer (or fails), and the rest of
\* fetchBookmarks runs once the answer is there.
FairView ==
    /\ WF_vars(\E f \in inflight, outcome \in Outcomes : ServeFetch(f, outcome))
    /\ WF_vars(\E f \in inflight : CompleteFetch(f))

SpecFetch == InitView /\ [][NextFetch]_vars /\ FairView

\* The texts typed into the search input
Texts == {<<>>, <<"a">>, <<"a", "l">>}

\* The search input of the view with its debounce, keystroke by keystroke.
NextSearch ==
    \/ Mount
    \/ \E text \in Texts : Type(text)
    \/ FireTimer
    \/ ApplySearch
    \/ \E f \in inflight, outcome \in Outcomes : ServeFetch(f, outcome)
    \/ \E f \in inflight : CompleteFetch(f)
    \/ Unmount

SpecSearch == InitView /\ [][NextSearch]_vars

(***************************************************************************)
(* Properties of the routes and the service.                               *)
(***************************************************************************)
Listed == resp.op = "GET" /\ resp.status = 200

\* The rows of the table that a statement of user c on id reaches.
Reached(c, id) == {r \in rows : r.id = id /\ r.user_id = c}

\* C1: every item a List call returns is owned by the requesting user,
\* whatever was created, updated or deleted before by any user.
C1_ListOnlyOwn ==
    Listed => \A i \in 1..Len(resp.body.data) :
                  resp.body.data[i].user_id = resp.user

C1_Witness ==
    /\ Listed
    /\ now > 0
    /\ Len(resp.body.data) > 1
    /\ \E r \in rows : r.user_id # resp.user

\* C2: an Update or Delete by a user leaves every row of another owner in
\* the table with all its fields as they were.
C2_NonOwnerLeavesRow ==
    [][\A r \in rows :
          (resp'.op \in {"PATCH", "DELETE"} /\ resp'.user # r.user_id)
              => r \in rows']_vars

C2_Witness ==
    /\ resp.op = "DELETE"
    /\ resp.status = 200
    /\ resp.user = "u2"
    /\ \E r \in rows : r.id = resp.id /\ r.user_id = "u1"

\* C3: an Update that matches no row (no such id, or a row of another
\* owner) ends in an error, returns no record and changes nothing.
C3_UpdateNoRowIsError ==
    [][(/\ resp'.op = "PATCH"
        /\ resp'.called
        /\ Reached(resp'.user, resp'.id) = {}
        /\ \E body \in Bodies, fail \in BOOLEAN :
              ApiPATCH(resp'.user, resp'.id, body, fail))
          => (resp'.threw /\ resp'.body = None /\ rows' = rows)]_vars

C3_Witness ==
    /\ resp.op = "PATCH"
    /\ resp.user = "u2"
    /\ resp.threw
    /\ \E r \in rows : r.id = resp.id /\ r.user_id = "u1"

\* C4 (as claimed): PATCH on a bookmark that is absent or not the caller's
\* answers 403 or 404, not the 500 of a store failure.
C4_PatchNotOwnerStatus ==
    [][(/\ resp'.op = "PATCH"
        /\ resp'.called
        /\ Reached(resp'.user, resp'.id) = {}
        /\ \E body \in Bodies : ApiPATCH(resp'.user, resp'.id, body, FALSE))
          => resp'.status \in {403, 404}]_vars

\* C10: totalPages is the ceiling of total / limit for a limit in 1..100,
\* and a List result of no pages has no items.
C10_TotalPages ==
    (Listed /\ resp.body.limit \in 1..100) =>
        LET tp == resp.body.totalPages
            total == resp.body.total
            limit == resp.body.limit
        IN  /\ tp >= 0
            /\ tp * limit >= total
            /\ (tp - 1) * limit < total
            /\ (tp = 0 => resp.body.data = <<>>)

C10_Witness ==
    /\ Listed
    /\ resp.body.limit = 2
    /\ resp.body.total % 2 = 1
    /\ resp.body.totalPages > 1

(***************************************************************************)
(* Properties of the listing controller.                                   *)
(***************************************************************************)
Settled ==
    /\ mounted = "yes"
    /\ inflight = {}
    /\ pending = <<>>
    /\ mut = None
    /\ error = NoError

\* What List answers for the view's page and search on the table as it is.
Current ==
    getBookmarks(rows, viewUser, viewUser,
                 [page |-> page, limit |-> PageLimit, search |-> search],
                 FALSE).value

\* C5 (as claimed): when overlapping fetches have all completed, bookmarks
\* and totalPages are those of the most recently issued fetch.
C5_LatestFetchWins ==
    (mounted = "yes" /\ inflight = {} /\ error = NoError /\ issued > 0)
        => shown = issued

\* C6: a search change resets page to 1 and issues, in the same step,
\* exactly one List call, with page 1 and the new search term.
C6_SearchResetsPage ==
    [][(search' # search /\ mounted' = "yes") =>
          /\ page' = 1
          /\ issued' = issued + 1
          /\ \E f \in inflight' :
                /\ inflight' \ inflight = {f}
                /\ f.n = issued'
                /\ f.page = 1
                /\ f.search = search']_vars

\* The List call for page 3 is followed directly by the one of a search
\* change, for page 1.
C6_Witness ==
    /\ mounted = "yes"
    /\ page = 1
    /\ \E f \in inflight, g \in inflight :
          /\ f.page = 3
          /\ g.n = f.n + 1
          /\ g.page = 1
          /\ g.search = search
          /\ g.search # f.search

\* C7: with page 1 and no search term, an insert event that the view
\* receives makes it issue exactly one List call, for page 1 and no search.
C7_OneListPerInsert ==
    [][(/\ mounted = "yes" /\ mounted' = "yes"
        /\ page = 1 /\ search = <<>>
        /\ page' = page /\ search' = search
        /\ pending # <<>>
        /\ Head(pending) = "INSERT"
        /\ pending' = Tail(pending))
          => /\ issued' = issued + 1
             /\ \E f \in inflight' :
                   /\ inflight' \ inflight = {f}
                   /\ f.n = issued'
                   /\ f.page = 1
                   /\ f.search = <<>>
                   /\ f.phase = "sent"]_vars

\* The view, subscribed since it was mounted, received the event of the one
\* insert and issued its second List call.
C7_Witness ==
    /\ mounted = "yes"
    /\ page = 1 /\ search = <<>>
    /\ channels = {[id |-> 1, page |-> 1, search |-> <<>>]}
    /\ resp.op = "POST" /\ resp.status = 201
    /\ pending = <<>>
    /\ issued = 2
    /\ \E f \in inflight : f.n = 2 /\ f.page = 1 /\ f.search = <<>>

\* C8: the view holds at most one subscription at any time, and none before
\* it is mounted or after it is torn down.
C8_OneSubscription ==
    /\ Cardinality(channels) <= 1
    /\ mounted # "yes" => channels = {}
    /\ mounted = "yes" => channels # {}

\* Torn down after the subscription was renewed at least twice.
C8_Witness ==
    /\ mounted = "gone"
    /\ issued >= 3
    /\ channels = {}

\* C9 (as claimed): after a successful write of the view's user from another
\* session, once the events are delivered and the fetches have completed,
\* the view shows what List answers for its page and search on the table
\* after the write.
C9_ViewShowsStore ==
    (/\ Settled /\ ~loading
     /\ now > 0
     /\ resp.op \in {"POST", "PATCH", "DELETE"}
     /\ resp.user = viewUser
     /\ resp.status \in {200, 201}) =>
        /\ bookmarks = Current.data
        /\ totalPages = Current.totalPages

(***************************************************************************)
(* Properties of List: pagination and search.                              *)
(***************************************************************************)
\* The rows of user c that the filter of List keeps for a term.
Matching(c, term) ==
    {r \in rows : r.user_id = c /\ (term = <<>> \/ SearchFilter(r, term))}

\* term occurs in s, letter case ignored.
Contains(term, s) ==
    \E k \in 0..(Len(s) - Len(term)) :
        \A j \in 1..Len(term) : Lower(term[j]) = Lower(s[k + j])

\* The rows of user c whose title or url contains the term, taken literally.
Containing(c, term) ==
    {r \in rows : r.user_id = c /\ (Contains(term, r.title) \/ Contains(term, r.url))}

\* C11: a List call answered for page p and page size l returns the rows at
\* positions (p-1)*l .. (p-1)*l+l-1 of the requester's matching rows in
\* descending order of created_at, and total is the number of matching rows.
C11_PageOfSorted ==
    Listed =>
        LET m == Matching(resp.user, resp.query.search)
            d == resp.body.data
            l == resp.query.limit
            off == (resp.query.page - 1) * l
            left == Cardinality(m) - off
        IN  /\ resp.body.total = Cardinality(m)
            /\ Len(d) = IF left <= 0 THEN 0 ELSE Min(l, left)
            /\ Len(d) <= l
            /\ \A i \in 1..Len(d) :
                  /\ d[i] \in m
                  /\ Cardinality({r \in m : r.created_at > d[i].created_at})
                         <= off + i - 1
                  /\ Cardinality({r \in m : r.created_at >= d[i].created_at})
                         >= off + i

\* The second page of two, holding the two next-newest of five rows, one of
\* them created after the start.
C11_Witness ==
    /\ Listed
    /\ resp.body.page = 2 /\ resp.body.limit = 2
    /\ resp.body.total = 5
    /\ Len(resp.body.data) = 2
    /\ resp.body.data[1].created_at > resp.body.data[2].created_at

\* C12 (as claimed): for a non-empty search term List answers with the
\* requester's rows whose title or url contains the term itself, letter case
\* ignored, whatever characters the term is made of.
C12_LiteralSubstring ==
    (/\ resp.op = "GET" /\ resp.user \in Users
     /\ resp.query.search # <<>>
     /\ resp = GET(rows, resp.user, resp.query.page, resp.query.limit,
                   resp.query.search, FALSE)) =>
        /\ resp.status = 200
        /\ resp.body.total = Cardinality(Containing(resp.user, resp.query.search))
        /\ \A i \in 1..Len(resp.body.data) :
              resp.body.data[i] \in Containing(resp.user, resp.query.search)

C14_CreateThenGetOne ==
    [][(/\ resp.op = "POST" /\ resp.status = 201
        /\ resp'.op = "GetOne"
        /\ resp'.user = resp.user
        /\ resp'.id = resp.body.id
        /\ resp' = Answer("GetOne", resp.user, resp.body.id,
                          getBookmark(rows, resp.user, resp.body.id,
                                      resp.user, FALSE)))
          => /\ resp'.body = resp.body
             /\ DOMAIN resp'.body = {"id", "user_id", "url", "title",
                                     "created_at", "updated_at"}]_vars

\* GetOne has answered with the row that the latest write created.
C14_Witness ==
    /\ resp.op = "GetOne"
    /\ resp.id = NewId(now)
    /\ resp.body # None
    /\ resp.body.created_at = now
    /\ resp.body \in rows

(***************************************************************************)
(* Properties of the routes: sessions and input.                           *)
(***************************************************************************)
\* C15: each of the four routes answers a request without a valid session
\* with 401 and no bookmark data, and neither reads nor writes the table.
C15_NoSessionIs401 ==
    [][(resp'.op \in {"GET", "POST", "PATCH", "DELETE"} /\ resp'.user = Anon) =>
          /\ resp'.status = 401
          /\ resp'.body = None
          /\ ~resp'.called
          /\ rows' = rows
          /\ now' = now]_vars

\* A PATCH without a session on a row that exists, after the table changed.
C15_Witness ==
    /\ resp.op = "PATCH" /\ resp.user = Anon /\ resp.status = 401
    /\ now > 0
    /\ \E r \in rows : r.id = resp.id

\* C16: a Create with an empty url or an empty title fails: POST answers 400,
\* the service, called with such input, throws, and no row is inserted.
C16_EmptyInputIs400 ==
    [][\A in \in PostInputs, fail \in BOOLEAN :
          (/\ resp'.op = "POST" /\ resp'.user \in Users
           /\ (in.url = <<>> \/ in.title = <<>>)
           /\ ApiPOST(resp'.user, in.url, in.title, fail)) =>
             LET svc == createBookmark(rows, resp'.user, resp'.user, in,
                                       now + 1, fail)
             IN  /\ resp'.status = 400
                 /\ resp'.body = None
                 /\ rows' = rows
                 /\ svc.threw
                 /\ svc.rows = rows]_vars

\* A POST was answered 400 after the table had changed.
C16_Witness ==
    /\ resp.op = "POST" /\ resp.status = 400 /\ resp.user \in Users
    /\ now > 0

(***************************************************************************)
(* Properties of the listing controller: events, failures, navigation.     *)
(***************************************************************************)
\* C17: when the view receives a change event of any kind, page and search
\* keep their values and exactly one List call is issued, with the page and
\* the search the view has at that moment, also after they were changed.
C17_EventRefetchesCurrent ==
    [][(/\ mounted = "yes" /\ mounted' = "yes"
        /\ channels' = channels
        /\ pending # <<>>
        /\ pending' = Tail(pending))
          => /\ page' = page
             /\ search' = search
             /\ issued' = issued + 1
             /\ \E f \in inflight' :
                   /\ inflight' \ inflight = {f}
                   /\ f.n = issued'
                   /\ f.page = page
                   /\ f.search = search]_vars

\* On page 2, reached after the mount, the view received the event of an
\* update made in another session and issued its latest List call for page 2.
C17_Witness ==
    /\ mounted = "yes"
    /\ page = 2
    /\ resp.op = "PATCH" /\ resp.status = 200
    /\ pending = <<>>
    /\ mut = None
    /\ \E c \in channels : c.id < issued
    /\ \E f \in inflight : f.n = issued /\ f.page = 2 /\ f.search = search

\* C19: when a fetch fails, by a response that is not OK or by a network
\* error, error becomes a non-empty message, loading is cleared, and
\* bookmarks and totalPages stay as the last successful fetch left them.
C19_FailureKeepsSnapshot ==
    [][\A f \in inflight :
          (/\ mounted = "yes" /\ mounted' = "yes"
           /\ f.phase = "answered"
           /\ f.reply.status # 200
           /\ inflight' = inflight \ {f})
             => /\ error' \notin {NoError, ""}
                /\ loading' = FALSE
                /\ bookmarks' = bookmarks
                /\ totalPages' = totalPages
                /\ shown' = shown]_vars

\* The first List call filled the list, the second failed: the error is set
\* and the list still shows the result of the first.
C19_Witness ==
    /\ mounted = "yes"
    /\ error # NoError
    /\ ~loading
    /\ inflight = {}
    /\ issued = 2
    /\ shown = 1
    /\ bookmarks # <<>>
    /\ totalPages = 3

\* C20 (as claimed): page navigation never takes page outside 1..totalPages.
C20_PageWithinRange ==
    [][(/\ mounted = "yes" /\ mounted' = "yes"
        /\ search' = search
        /\ page' # page)
          => (page' >= 1 /\ page' <= totalPages)]_vars

\* C18: a mount and every change of page or search set loading and issue a
\* List call with the new page and search; the fetch that answers it
\* replaces bookmarks and totalPages on success; and every fetch that was
\* issued is eventually over with loading cleared, unless the view goes away.
C18_FetchClearsLoading ==
    /\ [][(mounted' = "yes"
              /\ (mounted # "yes" \/ page' # page \/ search' # search))
            => /\ loading'
               /\ \E f \in inflight' \ inflight :
                     /\ f.n = issued'
                     /\ f.page = page'
                     /\ f.search = search'
                     /\ f.phase = "sent"]_vars
    /\ [][\A f \in inflight :
            (/\ mounted = "yes" /\ mounted' = "yes"
             /\ f.phase = "answered"
             /\ f.reply.status = 200
             /\ inflight' = inflight \ {f})
               => /\ bookmarks' = f.reply.body.data
                  /\ totalPages' = f.reply.body.totalPages
                  /\ ~loading']_vars
    /\ \A n \in 1..MaxIssued :
          (\E f \in inflight : f.n = n)
              ~> ((\A f \in inflight : f.n # n)
                     /\ (~loading \/ mounted = "gone"))

\* The List call of a page change has been answered and completed: the list
\* shows page 2 and loading is cleared.
C18_Witness ==
    /\ mounted = "yes"
    /\ page = 2
    /\ shown = issued
    /\ issued >= 2
    /\ ~loading
    /\ inflight = {}
    /\ error = NoError
    /\ Len(bookmarks) = PageLimit

(***************************************************************************)
(* Properties of the stored rows.                                          *)
(***************************************************************************)
\* C21 (as claimed): whatever body a PATCH carries, every row keeps its id,
\* its user_id and its created_at.
C21_UpdateKeepsIdentity ==
    [][resp'.op = "PATCH" =>
          \A r \in rows : \E q \in rows' :
              /\ q.id = r.id
              /\ q.user_id = r.user_id
              /\ q.created_at = r.created_at]_vars

\* C22 (as claimed): every row of the table has updated_at >= created_at.
C22_UpdatedNotBeforeCreated ==
    \A r \in rows : r.updated_at >= r.created_at

\* VALIDATION.MAX_TITLE_LENGTH
MaxTitleLength == 200

\* s begins with pre.
StartsWith(pre, s) ==
    Len(s) >= Len(pre) /\ SubSeq(s, 1, Len(pre)) = pre

\* C23 (as claimed): every row of the table has a non-empty title of at most
\* 200 characters and a non-empty url that begins with http:// or https://.
C23_StoredRowsValid ==
    \A r \in rows :
        /\ r.title # <<>>
        /\ Len(r.title) <= MaxTitleLength
        /\ r.url # <<>>
        /\ \/ StartsWith(<<"h", "t", "t", "p", ":", "/", "/">>, r.url)
           \/ StartsWith(<<"h", "t", "t", "p", "s", ":", "/", "/">>, r.url)

\* PAGINATION.MAX_LIMIT
MaxLimit == 100

\* C24 (as claimed): the table is only ever queried with a page of at least
\* 1 and a page size within 1..100, so a List call that was answered carries
\* such a page and page size, an offset that is not negative and a
\* totalPages that is a natural number.
C24_QueryWithinRange ==
    Listed =>
        /\ resp.body.page >= 1
        /\ resp.body.limit \in 1..MaxLimit
        /\ (resp.body.page - 1) * resp.body.limit >= 0
        /\ resp.body.totalPages \in Nat

(***************************************************************************)
(* Properties of the listing controller: loading, page range, quiescence.  *)
(***************************************************************************)
\* C25 (as claimed): while the view is mounted, loading = FALSE implies that
\* none of its fetches is still in flight.
C25_LoadingCoversFetches ==
    (mounted = "yes" /\ ~loading) => inflight = {}

\* C26 (as claimed): when the view has no fetch in flight and totalPages is
\* at least 1, page lies within 1..totalPages.
C26_PageNotPastLast ==
    (mounted = "yes" /\ inflight = {} /\ totalPages >= 1) =>
        (page >= 1 /\ page <= totalPages)

\* C27: with no page change, no search change, no write and no event the
\* mounted view has issued exactly one List call, and the step that completes
\* a fetch takes that fetch out and neither issues a List call nor touches
\* the subscription.
C27_CompletionIsQuiet ==
    /\ []((mounted = "yes" /\ now = 0 /\ \E c \in channels : c.id = 1)
              => issued = 1)
    /\ [][\A f \in inflight :
              (f.phase = "answered" /\ f \notin inflight' /\ mounted' = "yes")
                  => /\ issued' = issued
                     /\ channels' = channels
                     /\ inflight' = inflight \ {f}]_vars

C27_Witness ==
    /\ mounted = "yes"
    /\ now = 0
    /\ issued = 1
    /\ shown = 1
    /\ inflight = {}
    /\ ~loading
    /\ channels = {[id |-> 1, page |-> 1, search |-> <<>>]}

\* C28: the step in which addBookmark / deleteBookmark returns: a failed call
\* returns with an error message, issues no List call and leaves bookmarks,
\* page, totalPages and search as they are; a successful call returns in the
\* step that completes the List call it started.
C28_MutationReturn ==
    [][(mounted = "yes" /\ mounted' = "yes" /\ mut # None /\ mut' = None)
          => IF mut.ok
             THEN /\ mut.phase = "refreshing"
                  /\ \E f \in inflight :
                         /\ f.n = mut.n
                         /\ f.phase = "answered"
                         /\ f \notin inflight'
             ELSE /\ mut.error # ""
                  /\ issued' = issued
                  /\ inflight' = inflight
                  /\ UNCHANGED <<bookmarks, page, totalPages, search>>]_vars

C28_Witness ==
    /\ mounted = "yes"
    /\ mut = None
    /\ bookmarks # <<>>
    /\ bookmarks[1].id = NewId(1)
    /\ bookmarks[1].title = TBeta
    /\ shown = issued

(***************************************************************************)
(* Properties of the debounced search input.                               *)
(***************************************************************************)
\* C29 (as claimed): no typed text is lost or reverted: the search input
\* shows the text typed last, and once no timer and no update is pending
\* the controller's search is that text.
C29_TypedTextKept ==
    mounted = "yes" =>
        /\ localValue = typed
        /\ (timer = None /\ queued = <<>>) => search = typed

====
